---- MODULE Spec2Model ----
(***************************************************************************)
(* The IR core of src/ir/instructions.py: instructions with their operand  *)
(* lists and use lists, the InstructionList of a basic block with its name *)
(* assignment, the CFG adjacency sets of basic blocks, erase_from_parent,  *)
(* validate and the textual form of instructions.                          *)
(*                                                                         *)
(* Objects are identified by their creation index: instruction i is the    *)
(* i-th instruction constructed, block b the b-th BasicBlock constructed.  *)
(***************************************************************************)
EXTENDS Integers, Sequences, FiniteSets, TLC

VARIABLES
    nblocks,        \* number of BasicBlock objects constructed so far
    insts,          \* insts[i]: the fields of instruction i set by its constructor
    name,           \* name[i]: Instruction.__name of instruction i
    uses,           \* uses[i]: Instruction.__uses of instruction i (a list)
    instructions,   \* instructions[b]: BasicBlock.__instructions (an InstructionList)
    predecessors,   \* predecessors[b]: BasicBlock.__predecessors (a set)
    successors,     \* successors[b]: BasicBlock.__successors (a set)
    variable_idx,   \* the Name Generator's count of value names issued
    fault           \* the fault the last call raised, "none" when it returned

vars == <<nblocks, insts, name, uses, instructions, predecessors, successors,
          variable_idx, fault>>

(***************************************************************************)
(* Bounds of the model.                                                    *)
(***************************************************************************)
\* of the control-flow specification (Spec)
MaxObjects == 3     \* basic blocks and instructions constructed, together
MaxLen == 2         \* instructions held by the lists of all blocks, together
MaxNames == 2       \* value names the Name Generator issues
\* of the def-use specification (SpecUse)
UseObjects == 3
UseLen == 1
UseNames == 2
\* of the naming specification (SpecName)
NameObjects == 3
NameLen == 2
NameNames == 2
\* of the textual-form specification (SpecStr)
StrObjects == 2
StrLen == 1
StrNames == 1
\* of the specification of the name property (SpecSigil)
SigilObjects == 3
SigilLen == 1
SigilNames == 1
\* of the memory specification (SpecMem)
MemObjects == 3
MemLen == 2
MemNames == 2
\* of the specification with direct CFG calls (SpecEdge)
EdgeObjects == 3
EdgeLen == 1
EdgeNames == 1
EdgeEntries == 1    \* entries of all CFG sets up to which a builder adds a new one

(***************************************************************************)
(* Values.  A value is a record [t, id]: an instruction, a basic block, a  *)
(* literal number, or Python's None.                                       *)
(***************************************************************************)
None == 0           \* parent=None: no block carries the index 0

InstV(i) == [t |-> "inst", id |-> i]
BlockV(b) == [t |-> "bb", id |-> b]
LitV == [t |-> "lit", id |-> 5]
NoneV == [t |-> "none", id |-> 0]

IsInst(v) == v.t = "inst"

\* A name is a sequence of characters; NoName stands for a name that is None.
NoName == <<"None">>

Range(s) == {s[k] : k \in 1..Len(s)}

Blocks == 1..nblocks
Insts == 1..Len(insts)

RECURSIVE SumLen(_, _)
SumLen(lists, n) == IF n = 0 THEN 0 ELSE Len(lists[n]) + SumLen(lists, n - 1)

\* The number of entries of all instruction lists.
Held == SumLen(instructions, nblocks)


(***************************************************************************)
(* The class hierarchy of the instruction kinds the model constructs.      *)
(* Switch, Cast, GEP, InsertElement and Terminate have the constructor and *)
(* the empty __str__ of Phi.                                               *)
(***************************************************************************)
Kinds == {"Alloca", "Load", "Store", "Return", "Branch", "IndirectBranch",
          "ConditionalBranch", "BinOp", "BitwiseBinary", "Phi"}

\* The classes a kind is an instance of (isinstance follows subclassing).
Classes(kind) ==
    IF kind = "IndirectBranch" THEN {"IndirectBranch", "Branch", "Instruction"}
    ELSE {kind, "Instruction"}

isinstance(i, class) == class \in Classes(insts[i].kind)

NoTag == -1

\* The operator tags the class constants name.
BinOpTags == {0, 1, 2, 3}
\* As BitwiseTags, but XOR is missing from the chain of tests.
BitwiseTags_noxor == {0, 1, 2, 3, 4}
BitwiseTags == {0, 1, 2, 3, 4, 5}

(***************************************************************************)
(* The Name Generator (an external collaborator): every call of generate   *)
(* returns a value name it has not returned before, here the decimal form  *)
(* of its running count.                                                   *)
(***************************************************************************)
Digit == <<"0", "1", "2", "3", "4", "5", "6", "7", "8", "9">>

RECURSIVE DecStr(_)
DecStr(n) == IF n < 10 THEN <<Digit[n + 1]>>
             ELSE DecStr(n \div 10) \o <<Digit[(n % 10) + 1]>>

generate(idx) == DecStr(idx + 1)

(***************************************************************************)
(* Instruction.name (the property): None when no name is stored, the       *)
(* stored identifier with a leading % otherwise; the empty identifier has  *)
(* no first character to test.                                             *)
(***************************************************************************)
\* What a read of the name gives in place of a name when self.__name[0]
\* raises, which it does on the empty string.
IndexError == <<"IndexError">>

NameOf(stored) ==
    IF stored = NoName THEN NoName
    ELSE IF stored = <<>> THEN IndexError
    ELSE IF stored[1] # "%" THEN <<"%">> \o stored
    ELSE stored

(***************************************************************************)
(* Initial state: no block and no instruction has been constructed.        *)
(***************************************************************************)
Init ==
    /\ nblocks = 0
    /\ insts = <<>>
    /\ name = <<>>
    /\ uses = <<>>
    /\ instructions = <<>>
    /\ predecessors = <<>>
    /\ successors = <<>>
    /\ variable_idx = 0
    /\ fault = "none"

(***************************************************************************)
(* BasicBlock.__init__: an empty instruction list and empty CFG sets.      *)
(***************************************************************************)
BasicBlock_init ==
    /\ nblocks' = nblocks + 1
    /\ instructions' = Append(instructions, <<>>)
    /\ predecessors' = Append(predecessors, {})
    /\ successors' = Append(successors, {})
    /\ fault' = "none"
    /\ UNCHANGED <<insts, name, uses, variable_idx>>

(***************************************************************************)
(* Instruction.__init__ and Instruction.add_use.                           *)
(***************************************************************************)
\* As add_use, but only the first operand position is looked at.
add_use_first(u, operands, user) ==
    LET hits == {k \in 1..Len(operands) : k = 1 /\ operands[k] = InstV(u)}
    IN  uses[u] \o [k \in 1..Cardinality(hits) |-> user]

\* The use list of u after `user` has called u.add_use(user) once for every
\* position of `operands` that holds u.
add_use(u, operands, user) ==
    LET hits == {k \in 1..Len(operands) : operands[k] = InstV(u)}
    IN  uses[u] \o [k \in 1..Cardinality(hits) |-> user]

Instruction_init(kind, operands, parent, nm, needs_name, operator, alloca, value) ==
    LET self == Len(insts) + 1
    IN  /\ insts' = Append(insts, [kind |-> kind, operands |-> operands,
                                   parent |-> parent, needs_name |-> needs_name,
                                   operator |-> operator, alloca |-> alloca,
                                   value |-> value])
        /\ name' = Append(name, nm)
        /\ uses' = [u \in 1..self |->
                      IF u = self THEN <<>> ELSE add_use(u, operands, self)]
        /\ fault' = "none"

\* A constructor that leaves blocks and the Name Generator alone.
PlainInit(kind, operands, parent, nm, needs_name, operator, alloca, value) ==
    /\ Instruction_init(kind, operands, parent, nm, needs_name, operator, alloca, value)
    /\ UNCHANGED <<nblocks, instructions, predecessors, successors, variable_idx>>

(***************************************************************************)
(* BasicBlock.add_predecessor and add_successor, on the maps of all blocks *)
(* (both sets are Python sets).                                            *)
(***************************************************************************)
\* As add_predecessor, but the entry lands in the set of the predecessor.
add_predecessor_swapped(preds, b, predecessor) ==
    [preds EXCEPT ![predecessor] = preds[predecessor] \cup {b}]

\* As add_successor, but the set is replaced instead of extended.
add_successor_assign(succs, b, successor) ==
    [succs EXCEPT ![b] = {successor}]

add_predecessor(preds, b, predecessor) ==
    [preds EXCEPT ![b] = preds[b] \cup {predecessor}]

\* As add_successor, but a successor that is already there is taken out.
add_successor_toggle(succs, b, successor) ==
    [succs EXCEPT ![b] = IF successor \in succs[b]
                         THEN succs[b] \ {successor}
                         ELSE succs[b] \cup {successor}]

add_successor(succs, b, successor) ==
    [succs EXCEPT ![b] = succs[b] \cup {successor}]

\* b.add_predecessor(x) and b.add_successor(x) called by a builder.
AddPredecessor(b, x) ==
    /\ predecessors' = add_predecessor(predecessors, b, x)
    /\ fault' = "none"
    /\ UNCHANGED <<nblocks, insts, name, uses, instructions, successors,
                   variable_idx>>

AddSuccessor(b, x) ==
    /\ successors' = add_successor(successors, b, x)
    /\ fault' = "none"
    /\ UNCHANGED <<nblocks, insts, name, uses, instructions, predecessors,
                   variable_idx>>

(***************************************************************************)
(* The constructors of the instruction kinds.                              *)
(***************************************************************************)
AllocaInstruction_init(parent, nm) ==
    PlainInit("Alloca", <<>>, parent, nm, TRUE, NoTag, 0, NoneV)

PhiInstruction_init(parent, nm) ==
    PlainInit("Phi", <<>>, parent, nm, TRUE, NoTag, 0, NoneV)

\* The assert of LoadInstruction and StoreInstruction runs after
\* Instruction.__init__, which was given no operands: when it fails the new
\* object is dropped and nothing else has changed.
AssertionFailed(kind) ==
    /\ fault' = "AssertionError"
    /\ UNCHANGED <<nblocks, insts, name, uses, instructions, predecessors,
                   successors, variable_idx>>

IsAlloca(v) == IsInst(v) /\ isinstance(v.id, "Alloca")

\* As LoadInstruction_init, but the Alloca is handed to Instruction.__init__
\* as the operand.
LoadInstruction_init_operand(alloca, parent, nm) ==
    IF IsAlloca(alloca)
    THEN PlainInit("Load", <<alloca>>, parent, nm, TRUE, NoTag, alloca.id, NoneV)
    ELSE AssertionFailed("Load")

LoadInstruction_init(alloca, parent, nm) ==
    IF IsAlloca(alloca)
    THEN PlainInit("Load", <<>>, parent, nm, TRUE, NoTag, alloca.id, NoneV)
    ELSE AssertionFailed("Load")

StoreInstruction_init(alloca, value, parent) ==
    IF IsAlloca(alloca)
    THEN PlainInit("Store", <<>>, parent, NoName, FALSE, NoTag, alloca.id, value)
    ELSE AssertionFailed("Store")

ReturnInstruction_init(value, parent, nm) ==
    PlainInit("Return", <<value>>, parent, nm, FALSE, NoTag, 0, NoneV)

BinOpInstruction_init(binop, lhs, rhs, parent, nm) ==
    PlainInit("BinOp", <<lhs, rhs>>, parent, nm, TRUE, binop, 0, NoneV)

BitwiseBinaryInstruction_init(op, op1, op2, parent, nm) ==
    PlainInit("BitwiseBinary", <<op1, op2>>, parent, nm, TRUE, op, 0, NoneV)

\* BranchInstruction.__init__, also reached from IndirectBranchInstruction.
Branch_init(kind, bb, parent, nm) ==
    /\ Instruction_init(kind, <<BlockV(bb)>>, parent, nm, FALSE, NoTag, 0, NoneV)
    /\ IF parent # None
       THEN /\ successors' = add_successor(successors, parent, bb)
            /\ predecessors' = add_predecessor(predecessors, bb, parent)
       ELSE UNCHANGED <<predecessors, successors>>
    /\ UNCHANGED <<nblocks, instructions, variable_idx>>

BranchInstruction_init(bb, parent, nm) == Branch_init("Branch", bb, parent, nm)

IndirectBranchInstruction_init(bb, parent, nm) ==
    Branch_init("IndirectBranch", bb, parent, nm)

ConditionalBranchInstruction_init(cmp_inst, value, bb_true, bb_false, parent, nm) ==
    /\ Instruction_init("ConditionalBranch",
                        <<cmp_inst, BlockV(bb_true), BlockV(bb_false)>>,
                        parent, nm, FALSE, NoTag, 0, value)
    /\ IF parent # None
       THEN /\ successors' = add_successor(
                                 add_successor(successors, parent, bb_true),
                                 parent, bb_false)
            /\ predecessors' = add_predecessor(
                                   add_predecessor(predecessors, bb_true, parent),
                                   bb_false, parent)
       ELSE UNCHANGED <<predecessors, successors>>
    /\ UNCHANGED <<nblocks, instructions, variable_idx>>

(***************************************************************************)
(* InstructionList.append and insert.                                      *)
(***************************************************************************)
\* list.insert(idx, x): a negative idx counts from the end, and idx is
\* clamped to the list.
ListInsert(list, idx, x) ==
    LET n == Len(list)
        i0 == IF idx < 0 THEN idx + n ELSE idx
        at == IF i0 < 0 THEN 0 ELSE IF i0 > n THEN n ELSE i0
    IN  SubSeq(list, 1, at) \o <<x>> \o SubSeq(list, at + 1, n)

\* As AssignName, but a name given to the constructor is kept.
AssignName_unnamed(inst) ==
    IF insts[inst].needs_name /\ name[inst] = NoName
    THEN /\ name' = [name EXCEPT ![inst] = generate(variable_idx)]
         /\ variable_idx' = variable_idx + 1
    ELSE UNCHANGED <<name, variable_idx>>

\* As AssignName, but needs_name is not looked at.
AssignName_always(inst) ==
    /\ name' = [name EXCEPT ![inst] = generate(variable_idx)]
    /\ variable_idx' = variable_idx + 1

\* if inst.needs_name: inst.name = name_generator.generate(inst)
\* As AssignName, but the Name Generator is asked twice and the second name
\* is kept.
AssignName_twice(inst) ==
    IF insts[inst].needs_name
    THEN /\ name' = [name EXCEPT ![inst] = generate(variable_idx + 1)]
         /\ variable_idx' = variable_idx + 2
    ELSE UNCHANGED <<name, variable_idx>>

AssignName(inst) ==
    IF insts[inst].needs_name
    THEN /\ name' = [name EXCEPT ![inst] = generate(variable_idx)]
         /\ variable_idx' = variable_idx + 1
    ELSE UNCHANGED <<name, variable_idx>>

append(b, inst) ==
    /\ AssignName(inst)
    /\ instructions' = [instructions EXCEPT ![b] = Append(@, inst)]
    /\ fault' = "none"
    /\ UNCHANGED <<nblocks, insts, uses, predecessors, successors>>

insert(b, idx, inst) ==
    /\ AssignName(inst)
    /\ instructions' = [instructions EXCEPT ![b] = ListInsert(@, idx, inst)]
    /\ fault' = "none"
    /\ UNCHANGED <<nblocks, insts, uses, predecessors, successors>>

(***************************************************************************)
(* The name property read and set by a builder.                            *)
(***************************************************************************)
\* inst.name = n
SetName(inst, n) ==
    /\ name' = [name EXCEPT ![inst] = n]
    /\ fault' = "none"
    /\ UNCHANGED <<nblocks, insts, uses, instructions, predecessors, successors,
                   variable_idx>>

\* How a read of inst.name ends.
NameRead(inst) == IF NameOf(name[inst]) = IndexError THEN "IndexError" ELSE "ok"

\* inst.name
ReadName(inst) ==
    /\ fault' = IF NameRead(inst) = "ok" THEN "none" ELSE NameRead(inst)
    /\ UNCHANGED <<nblocks, insts, name, uses, instructions, predecessors,
                   successors, variable_idx>>

\* inst.name = inst.name
RestoreName(inst) ==
    IF NameRead(inst) = "ok" THEN SetName(inst, NameOf(name[inst]))
    ELSE ReadName(inst)

(***************************************************************************)
(* Instruction.erase_from_parent.                                          *)
(***************************************************************************)
\* As uses_remain, but the operands of a use are compared with the
\* instruction that is being erased.
uses_remain_self(self) ==
    LET hit(k) == {j \in 1..Len(insts[uses[self][k]].operands) :
                      insts[uses[self][k]].operands[j] = InstV(self)}
    IN  {k \in 1..Len(uses[self]) : hit(k) # {}}

\* The users the scan collects: for every use, once for every operand op of
\* the use with op == use.
uses_remain(self) ==
    LET hit(k) == {j \in 1..Len(insts[uses[self][k]].operands) :
                      insts[uses[self][k]].operands[j] = InstV(uses[self][k])}
    IN  {k \in 1..Len(uses[self]) : hit(k) # {}}

\* list.remove(x): drops the first occurrence of x.
RECURSIVE ListRemove(_, _)
ListRemove(list, x) ==
    IF list = <<>> THEN <<>>
    ELSE IF Head(list) = x THEN Tail(list)
    ELSE <<Head(list)>> \o ListRemove(Tail(list), x)

\* for inst in parent.instructions: if inst == self: parent.instructions.remove(inst)
\* The iterator holds a position into the list the body shortens.
RECURSIVE RemoveLoop(_, _, _)
RemoveLoop(list, pos, self) ==
    IF pos > Len(list) THEN list
    ELSE IF list[pos] = self THEN RemoveLoop(ListRemove(list, self), pos + 1, self)
    ELSE RemoveLoop(list, pos + 1, self)

\* As erase_from_parent, but the erased instruction is also taken out of
\* the use lists of its operands.
erase_from_parent_unuse(self) ==
    LET parent == insts[self].parent
    IN  /\ IF uses_remain(self) # {}
           THEN /\ fault' = "UsesRemain"
                /\ UNCHANGED <<instructions, uses>>
           ELSE IF parent = None
           THEN /\ fault' = "AttributeError"
                /\ UNCHANGED <<instructions, uses>>
           ELSE /\ fault' = "none"
                /\ instructions' = [instructions EXCEPT ![parent] =
                                       RemoveLoop(@, 1, self)]
                /\ uses' = [u \in Insts |->
                              IF InstV(u) \in Range(insts[self].operands)
                              THEN ListRemove(uses[u], self)
                              ELSE uses[u]]
        /\ UNCHANGED <<nblocks, insts, name, predecessors, successors,
                       variable_idx>>

\* As erase_from_parent, but the erased instruction's block also forgets its
\* successors.
erase_from_parent_unlink(self) ==
    LET parent == insts[self].parent
    IN  /\ IF uses_remain(self) # {}
           THEN /\ fault' = "UsesRemain"
                /\ UNCHANGED <<instructions, successors>>
           ELSE IF parent = None
           THEN /\ fault' = "AttributeError"
                /\ UNCHANGED <<instructions, successors>>
           ELSE /\ fault' = "none"
                /\ instructions' = [instructions EXCEPT ![parent] =
                                       RemoveLoop(@, 1, self)]
                /\ successors' = [successors EXCEPT ![parent] = {}]
        /\ UNCHANGED <<nblocks, insts, name, uses, predecessors, variable_idx>>

erase_from_parent(self) ==
    LET parent == insts[self].parent
    IN  /\ IF uses_remain(self) # {}
           THEN /\ fault' = "UsesRemain"
                /\ UNCHANGED instructions
           ELSE IF parent = None
           THEN /\ fault' = "AttributeError"
                /\ UNCHANGED instructions
           ELSE /\ fault' = "none"
                /\ instructions' = [instructions EXCEPT ![parent] =
                                       RemoveLoop(@, 1, self)]
        /\ UNCHANGED <<nblocks, insts, name, uses, predecessors, successors,
                       variable_idx>>

(***************************************************************************)
(* BasicBlock.is_empty, get_terminator, has_terminator and validate.       *)
(***************************************************************************)
\* self.__instructions[-1] of a non-empty list
Last(list) == list[Len(list)]

\* As is_empty, but a Branch anywhere in the list counts.
is_empty_any(b) ==
    \/ Len(instructions[b]) = 0
    \/ \E k \in 1..Len(instructions[b]) : isinstance(instructions[b][k], "Branch")

is_empty(b) ==
    \/ Len(instructions[b]) = 0
    \/ isinstance(Last(instructions[b]), "Branch")

\* As get_terminator, but the test for ConditionalBranchInstruction is missing.
get_terminator_two(b) ==
    LET inst == IF Len(instructions[b]) > 0 THEN Last(instructions[b]) ELSE None
    IN  IF inst # None /\ (\/ isinstance(inst, "Return")
                           \/ isinstance(inst, "Branch"))
        THEN inst
        ELSE None

\* The instruction returned, or None.
get_terminator(b) ==
    LET inst == IF Len(instructions[b]) > 0 THEN Last(instructions[b]) ELSE None
    IN  IF inst # None /\ (\/ isinstance(inst, "Return")
                           \/ isinstance(inst, "Branch")
                           \/ isinstance(inst, "ConditionalBranch"))
        THEN inst
        ELSE None

has_terminator(b) == get_terminator(b) # None

\* utils.is_terminator_instruction: the instruction is of a terminator kind.
is_terminator_instruction(inst) ==
    \/ isinstance(inst, "Return")
    \/ isinstance(inst, "Branch")
    \/ isinstance(inst, "ConditionalBranch")

\* As validate, but an empty list is let through.
validate_nonempty(b) ==
    IF Len(instructions[b]) > 0
    THEN IF ~is_terminator_instruction(instructions[b][Len(instructions[b])])
         THEN [fault |-> "NoBBTerminatorException", bb |-> b]
         ELSE [fault |-> "none", bb |-> 0]
    ELSE [fault |-> "none", bb |-> 0]

\* The fault validate ends with ("none" when it returns) and the block its
\* message names.
validate(b) ==
    IF Len(instructions[b]) > 0
    THEN IF ~is_terminator_instruction(instructions[b][Len(instructions[b])])
         THEN [fault |-> "NoBBTerminatorException", bb |-> b]
         ELSE [fault |-> "none", bb |-> 0]
    ELSE [fault |-> "NoBBTerminatorException", bb |-> b]

Validate(b) ==
    /\ fault' = validate(b).fault
    /\ UNCHANGED <<nblocks, insts, name, uses, instructions, predecessors,
                   successors, variable_idx>>

(***************************************************************************)
(* The textual form: how str(inst) ends, "ok" or the fault it raises.      *)
(***************************************************************************)
\* The fault a rendering that ended with outcome r raised.
Raised(r) == IF r = "ok" THEN "none" ELSE r

\* The outcome of two renderings made one after the other.
Then(a, b) == IF a # "ok" THEN a ELSE b

\* utils.render_list_with_parens: the operands are written by their names.
render_list_with_parens(operands) == "ok"

RECURSIVE Instruction_str(_)
\* str(v) of a value: an instruction renders itself, the others have a text.
ValueStr(v) == IF IsInst(v) THEN Instruction_str(v.id) ELSE "ok"

Instruction_str(i) ==
    LET inst == insts[i]
    IN  CASE inst.kind \in {"Alloca", "Branch"} -> "ok"
          [] inst.kind = "Load" -> NameRead(inst.alloca)
          [] inst.kind = "Return" ->
                IF IsInst(inst.operands[1]) THEN NameRead(inst.operands[1].id)
                ELSE "ok"
          [] inst.kind = "Store" ->
                Then(NameRead(inst.alloca), ValueStr(inst.value))
          [] inst.kind \in {"Phi", "IndirectBranch"} -> "TypeError"
          [] inst.kind = "ConditionalBranch" ->
                Then(IF ~IsInst(inst.operands[1]) THEN "AttributeError"
                     ELSE IF NameRead(inst.operands[1].id) # "ok"
                     THEN NameRead(inst.operands[1].id)
                     ELSE IF NameOf(name[inst.operands[1].id]) = NoName
                     THEN "TypeError" ELSE "ok",
                     ValueStr(inst.value))
          [] inst.kind = "BinOp" ->
                IF inst.operator \in BinOpTags
                THEN render_list_with_parens(inst.operands)
                ELSE "InvalidTypeException"
          [] inst.kind = "BitwiseBinary" ->
                IF inst.operator \in BitwiseTags
                THEN Then(ValueStr(inst.operands[1]), ValueStr(inst.operands[2]))
                ELSE "InvalidTypeException"

Str(i) ==
    /\ fault' = Raised(Instruction_str(i))
    /\ UNCHANGED <<nblocks, insts, name, uses, instructions, predecessors,
                   successors, variable_idx>>

\* BasicBlock.render: the header, then i.name and str(i) of every
\* instruction in order.
RECURSIVE RenderFrom(_, _)
RenderFrom(list, pos) ==
    IF pos > Len(list) THEN "ok"
    ELSE Then(NameRead(list[pos]),
              Then(Instruction_str(list[pos]), RenderFrom(list, pos + 1)))

Render(b) ==
    /\ fault' = Raised(RenderFrom(instructions[b], 1))
    /\ UNCHANGED <<nblocks, insts, name, uses, instructions, predecessors,
                   successors, variable_idx>>

(***************************************************************************)
(* The constructor calls a builder makes: the kind and the arguments,      *)
(* drawn from the kinds, given names, operator tags and operand values of  *)
(* an input set.                                                           *)
(***************************************************************************)
\* parent=None, or a block constructed before
Parents(ps) ==
    (IF "none" \in ps THEN {None} ELSE {})
    \cup (IF "block" \in ps THEN Blocks ELSE {})

\* The values of the types in vt that exist in the current state.
Values(vt) ==
    (IF "lit" \in vt THEN {LitV} ELSE {})
    \cup (IF "none" \in vt THEN {NoneV} ELSE {})
    \cup (IF "inst" \in vt THEN {InstV(i) : i \in Insts} ELSE {})

Call(kind, parent, nm, op, a, b, bb1, bb2) ==
    [kind |-> kind, parent |-> parent, nm |-> nm, op |-> op, a |-> a, b |-> b,
     bb1 |-> bb1, bb2 |-> bb2]

Calls(in) ==
    LET V == Values(in.values)
    IN  UNION {
        {Call(k, p, n, NoTag, NoneV, NoneV, 0, 0) :
            k \in in.kinds \cap {"Alloca", "Phi"}, p \in Parents(in.parents), n \in in.names},
        {Call(k, p, n, NoTag, a, NoneV, 0, 0) :
            k \in in.kinds \cap {"Load"}, p \in Parents(in.parents), n \in in.names,
            a \in Values({"lit", "inst"})},
        {Call(k, p, NoName, NoTag, a, b, 0, 0) :
            k \in in.kinds \cap {"Store"}, p \in Parents(in.parents),
            a \in Values({"lit", "inst"}), b \in V},
        {Call(k, p, n, NoTag, a, NoneV, 0, 0) :
            k \in in.kinds \cap {"Return"}, p \in Parents(in.parents), n \in in.names,
            a \in V \cup {NoneV}},
        {Call(k, p, n, op, a, b, 0, 0) :
            k \in in.kinds \cap {"BinOp", "BitwiseBinary"}, p \in Parents(in.parents),
            n \in in.names, op \in in.tags, a \in V, b \in V},
        {Call(k, p, n, NoTag, NoneV, NoneV, bb, 0) :
            k \in in.kinds \cap {"Branch", "IndirectBranch"}, p \in Parents(in.parents),
            n \in in.names, bb \in Blocks},
        {Call(k, p, n, NoTag, a, LitV, bb1, bb2) :
            k \in in.kinds \cap {"ConditionalBranch"}, p \in Parents(in.parents),
            n \in in.names, a \in V, bb1 \in Blocks, bb2 \in Blocks} }

Construct(c) ==
    CASE c.kind = "Alloca" -> AllocaInstruction_init(c.parent, c.nm)
      [] c.kind = "Phi" -> PhiInstruction_init(c.parent, c.nm)
      [] c.kind = "Load" -> LoadInstruction_init(c.a, c.parent, c.nm)
      [] c.kind = "Store" -> StoreInstruction_init(c.a, c.b, c.parent)
      [] c.kind = "Return" -> ReturnInstruction_init(c.a, c.parent, c.nm)
      [] c.kind = "BinOp" -> BinOpInstruction_init(c.op, c.a, c.b, c.parent, c.nm)
      [] c.kind = "BitwiseBinary" ->
            BitwiseBinaryInstruction_init(c.op, c.a, c.b, c.parent, c.nm)
      [] c.kind = "Branch" -> BranchInstruction_init(c.bb1, c.parent, c.nm)
      [] c.kind = "IndirectBranch" ->
            IndirectBranchInstruction_init(c.bb1, c.parent, c.nm)
      [] c.kind = "ConditionalBranch" ->
            ConditionalBranchInstruction_init(c.a, c.b, c.bb1, c.bb2,
                                              c.parent, c.nm)

NewInstruction(in) == \E c \in Calls(in) : Construct(c)

(***************************************************************************)
(* The next-state relation: any call a builder can make, with constructor  *)
(* arguments from the input set `in`.                                      *)
(***************************************************************************)
\* The indices given to insert: one counted from the end, those of the list
\* and one past its end.
InsertIdx(b) == (0 - 1)..(Len(instructions[b]) + 1)

\* The Name Generator can still serve an append or insert of inst.
NamesLeft(in, inst) == insts[inst].needs_name => variable_idx < in.names_max

NextOf(in) ==
    \/ /\ nblocks + Len(insts) < in.objects
       /\ BasicBlock_init
    \/ /\ nblocks + Len(insts) < in.objects
       /\ NewInstruction(in)
    \/ \E b \in Blocks, inst \in Insts :
          /\ Held < in.len
          /\ NamesLeft(in, inst)
          /\ append(b, inst)
    \/ \E b \in Blocks, inst \in Insts :
          /\ Held < in.len
          /\ NamesLeft(in, inst)
          /\ \E idx \in InsertIdx(b) : insert(b, idx, inst)
    \/ \E inst \in Insts : erase_from_parent(inst)
    \/ \E b \in Blocks : Validate(b)
    \/ \E inst \in Insts : Str(inst)
    \/ \E b \in Blocks : Render(b)

\* Control flow: the kinds that end a block or wire the CFG, and two that
\* do neither.
CfgInputs == [kinds |-> {"Alloca", "Store", "Return", "Branch",
                         "IndirectBranch", "ConditionalBranch"},
              names |-> {NoName}, tags |-> {3}, values |-> {"lit"},
              parents |-> {"none", "block"},
              objects |-> MaxObjects, len |-> MaxLen, names_max |-> MaxNames]

\* Def-use: kinds with no operand, with two operands and with an operand
\* beside block operands.
UseInputs == [kinds |-> {"Alloca", "BinOp", "ConditionalBranch"},
              names |-> {NoName}, tags |-> {3}, values |-> {"lit", "inst"},
              parents |-> {"none", "block"},
              objects |-> UseObjects, len |-> UseLen, names_max |-> UseNames]

\* Naming: kinds that need a name and kinds that do not, constructed with
\* and without a name.
NameInputs == [kinds |-> {"Alloca", "Store", "Return", "Branch"},
               names |-> {NoName, <<"t">>}, tags |-> {3},
               values |-> {"lit"}, parents |-> {"none", "block"},
               objects |-> NameObjects, len |-> NameLen, names_max |-> NameNames]

\* Textual form: the two kinds with an operator tag, with tags inside the
\* enumeration of both (3), of BitwiseBinary alone (5) and of neither (99).
Tags == {3, 5, 99}

StrInputs == [kinds |-> {"Phi", "BinOp", "BitwiseBinary"},
              names |-> {NoName}, tags |-> Tags,
              values |-> {"lit", "inst"}, parents |-> {"none", "block"},
              objects |-> StrObjects, len |-> StrLen, names_max |-> StrNames]

\* Direct CFG calls: the branch kinds, beside calls of add_predecessor and
\* add_successor.
EdgeInputs == [kinds |-> {"Branch", "ConditionalBranch"},
               names |-> {NoName}, tags |-> {3}, values |-> {"lit"},
               parents |-> {"none", "block"},
               objects |-> EdgeObjects, len |-> EdgeLen, names_max |-> EdgeNames]

\* The name property: identifiers that are absent, empty, without the sigil
\* and with it, given to constructors and to the setter.
GivenNames == {NoName, <<>>, <<"t">>, <<"%", "t">>}

SigilInputs == [kinds |-> {"Alloca", "Return"},
                names |-> GivenNames, tags |-> {3},
                values |-> {"lit", "inst"}, parents |-> {"block"},
                objects |-> SigilObjects, len |-> SigilLen,
                names_max |-> SigilNames]

\* Memory: an Alloca and the two kinds that refer to one.
MemInputs == [kinds |-> {"Alloca", "Load", "Store"},
              names |-> {NoName}, tags |-> {3}, values |-> {"lit"},
              parents |-> {"none", "block"},
              objects |-> MemObjects, len |-> MemLen, names_max |-> MemNames]

RECURSIVE SumCard(_, _)
SumCard(sets, n) == IF n = 0 THEN 0 ELSE Cardinality(sets[n]) + SumCard(sets, n - 1)

\* The number of entries of all predecessor and successor sets.
Entries == SumCard(predecessors, nblocks) + SumCard(successors, nblocks)

Next == NextOf(CfgInputs)
NextUse == NextOf(UseInputs)
NextName == NextOf(NameInputs)
NextStr == NextOf(StrInputs)

NextEdge ==
    \/ NextOf(EdgeInputs)
    \/ \E b \in Blocks, x \in Blocks :
          /\ x \in predecessors[b] \/ Entries < EdgeEntries
          /\ AddPredecessor(b, x)
    \/ \E b \in Blocks, x \in Blocks :
          /\ x \in successors[b] \/ Entries < EdgeEntries
          /\ AddSuccessor(b, x)

NextSigil ==
    \/ NextOf(SigilInputs)
    \/ \E inst \in Insts, n \in GivenNames : SetName(inst, n)
    \/ \E inst \in Insts : ReadName(inst)
    \/ \E inst \in Insts : RestoreName(inst)

NextMem == NextOf(MemInputs)

Spec == Init /\ [][Next]_vars
SpecMem == Init /\ [][NextMem]_vars
SpecSigil == Init /\ [][NextSigil]_vars
SpecEdge == Init /\ [][NextEdge]_vars
SpecUse == Init /\ [][NextUse]_vars
SpecName == Init /\ [][NextName]_vars
SpecStr == Init /\ [][NextStr]_vars

(***************************************************************************)
(* Properties.                                                             *)
(***************************************************************************)
\* x is in the instruction list of its parent block.
InParentList(x) ==
    /\ insts[x].parent # None
    /\ x \in Range(instructions[insts[x].parent])

\* u was constructed with x in its operand list.
IsUserOf(u, x) ==
    /\ u \in Range(uses[x])
    /\ InstV(x) \in Range(insts[u].operands)

\* C1: erase_from_parent on an instruction that is in its parent's list and
\* has a user still holding it as an operand raises the uses-remain fault
\* and leaves the parent's instruction list as it was.
C1_EraseWithLiveUserRejected ==
    [][\A x \in Insts :
          (/\ InParentList(x)
           /\ \E u \in Insts : IsUserOf(u, x)
           /\ erase_from_parent(x))
          => /\ fault' = "UsesRemain"
             /\ instructions' = instructions]_vars

\* C2: every operand of an instruction that is itself an instruction has the
\* instruction in its uses, whatever the position of the operand and also
\* when the operand occurs at several positions.
C2_OperandsRecordUse ==
    \A i \in Insts : \A k \in 1..Len(insts[i].operands) :
        IsInst(insts[i].operands[k]) =>
            i \in Range(uses[insts[i].operands[k].id])

\* An instruction holds the same instruction at both operand positions.
C2_Witness ==
    /\ \E i \in Insts :
          /\ Len(insts[i].operands) = 2
          /\ IsInst(insts[i].operands[1])
          /\ insts[i].operands[1] = insts[i].operands[2]
    /\ fault = "none"

\* C3: a Branch with parent P and target T has T in P.successors and P in
\* T.predecessors; a ConditionalBranch with parent P and targets T1, T2 has
\* both targets in P.successors and P in the predecessors of both.
C3_BranchWiresEdge ==
    \A i \in Insts :
        LET P == insts[i].parent
            ops == insts[i].operands
        IN  /\ (insts[i].kind = "Branch" /\ P # None) =>
                  /\ ops[1].id \in successors[P]
                  /\ P \in predecessors[ops[1].id]
            /\ (insts[i].kind = "ConditionalBranch" /\ P # None) =>
                  /\ ops[2].id \in successors[P]
                  /\ ops[3].id \in successors[P]
                  /\ P \in predecessors[ops[2].id]
                  /\ P \in predecessors[ops[3].id]

\* A ConditionalBranch with a parent and two different targets (one of them
\* then differs from the parent) has been constructed.
C3_Witness ==
    \E i \in Insts :
        /\ insts[i].kind = "ConditionalBranch"
        /\ insts[i].parent # None
        /\ insts[i].operands[2] # insts[i].operands[3]

\* C4: the CFG is bidirectional: B is a successor of A exactly when A is a
\* predecessor of B.
C4_CfgBidirectional ==
    \A A \in Blocks, B \in Blocks :
        B \in successors[A] <=> A \in predecessors[B]

\* An edge between two different blocks exists while the branch that made
\* it sits in a list.
C4_Witness ==
    \E A \in Blocks, B \in Blocks :
        /\ A # B
        /\ B \in successors[A]
        /\ Held > 0

\* The list of b is not empty and ends with a Return, a Branch (an
\* IndirectBranch is a Branch) or a ConditionalBranch.
EndsWithTerminator(b) ==
    /\ instructions[b] # <<>>
    /\ insts[instructions[b][Len(instructions[b])]].kind
          \in {"Return", "Branch", "IndirectBranch", "ConditionalBranch"}

\* C5: validate of a block returns without fault exactly when the list of
\* the block is not empty and ends with a Return, Branch or
\* ConditionalBranch; otherwise it raises the missing-terminator fault that
\* names the block; and a call of validate changes no list and no CFG set.
C5_ValidateIffTerminated ==
    /\ [](\A b \in Blocks :
            /\ validate(b).fault = "none" <=> EndsWithTerminator(b)
            /\ ~EndsWithTerminator(b) =>
                  /\ validate(b).fault = "NoBBTerminatorException"
                  /\ validate(b).bb = b)
    /\ [][\A b \in Blocks :
            Validate(b) => UNCHANGED <<instructions, predecessors, successors>>]_vars

\* validate has raised its fault on the only block, whose list is not empty.
C5_Witness ==
    /\ nblocks = 1
    /\ instructions[1] # <<>>
    /\ fault = "NoBBTerminatorException"

\* C6: get_terminator returns the last instruction exactly when the list is
\* not empty and ends with a Return, Branch or ConditionalBranch, and None
\* otherwise; has_terminator is true exactly when get_terminator is not
\* None, and exactly for the blocks validate accepts.
C6_TerminatorQueries ==
    \A b \in Blocks :
        /\ EndsWithTerminator(b) =>
              get_terminator(b) = instructions[b][Len(instructions[b])]
        /\ ~EndsWithTerminator(b) => get_terminator(b) = None
        /\ has_terminator(b) <=> get_terminator(b) # None
        /\ has_terminator(b) <=> validate(b).fault = "none"

\* A block whose last instruction is a Store has no terminator.
C6_Witness ==
    \E b \in Blocks :
        /\ instructions[b] # <<>>
        /\ insts[instructions[b][Len(instructions[b])]].kind = "Store"
        /\ get_terminator(b) = None

\* C7: is_empty is true exactly when the list is empty or its last
\* instruction is an unconditional Branch; a Branch at an earlier position
\* does not count.
C7_IsEmptyByLast ==
    \A b \in Blocks :
        is_empty(b) <=>
            \/ instructions[b] = <<>>
            \/ insts[instructions[b][Len(instructions[b])]].kind
                  \in {"Branch", "IndirectBranch"}

\* A block holds a Branch followed by an instruction that is no Branch, and
\* is not empty.
C7_Witness ==
    \E b \in Blocks :
        /\ Len(instructions[b]) = 2
        /\ insts[instructions[b][1]].kind = "Branch"
        /\ insts[instructions[b][2]].kind \in {"Return", "Alloca", "ConditionalBranch"}
        /\ ~is_empty(b)

\* The instructions that sit in a list and need a name.
HeldNamed ==
    {i \in Insts : insts[i].needs_name
                   /\ \E b \in Blocks : i \in Range(instructions[b])}

\* C8: every name-requiring instruction in a list has a name that is not
\* None and not empty, and two different name-requiring instructions in the
\* lists have different names.
C8_HeldNamesDistinct ==
    \A i \in HeldNamed :
        /\ NameOf(name[i]) # NoName
        /\ Len(NameOf(name[i])) > 0
        /\ \A j \in HeldNamed : i # j => NameOf(name[i]) # NameOf(name[j])

\* Two name-requiring instructions sit in the lists, named by two calls of
\* the Name Generator.
C8_Witness ==
    /\ Cardinality(HeldNamed) = 2
    /\ variable_idx = 2

\* The list `new` is the list `old` with x put in at position pos.
InsertedAt(old, new, x, pos) ==
    /\ Len(new) = Len(old) + 1
    /\ new[pos] = x
    /\ \A k \in 1..Len(old) : new[IF k < pos THEN k ELSE k + 1] = old[k]

\* The position list.insert(idx, x) asks for in a list of length n.
RequestedPos(idx, n) ==
    IF idx >= n THEN n + 1
    ELSE IF idx >= 0 THEN idx + 1
    ELSE IF n + idx >= 0 THEN n + idx + 1
    ELSE 1

\* Nothing but the list of b and the fault changes, and the list of b gets
\* inst at position pos.
OnlyAdds(b, inst, pos) ==
    /\ variable_idx' = variable_idx
    /\ name' = name
    /\ UNCHANGED <<nblocks, insts, uses, predecessors, successors>>
    /\ \A c \in Blocks : c # b => instructions'[c] = instructions[c]
    /\ InsertedAt(instructions[b], instructions'[b], inst, pos)

\* What append and insert build from a list: the list with inst at the end,
\* and the list with inst at the position idx asks for.
PlacedAsRequested ==
    \A b \in Blocks : \A inst \in Insts :
       /\ InsertedAt(instructions[b], Append(instructions[b], inst), inst,
                     Len(instructions[b]) + 1)
       /\ \A idx \in InsertIdx(b) :
             InsertedAt(instructions[b], ListInsert(instructions[b], idx, inst),
                        inst, RequestedPos(idx, Len(instructions[b])))

\* C9: append or insert of an instruction whose needs_name is false leaves
\* the Name Generator and the stored name alone; it only adds the
\* instruction to the list at the requested position.  The lists append and
\* insert build hold the instruction at the requested position, and a step
\* that lengthens a list by such an instruction changes nothing else.
C9_UnnamedAppendFrame ==
    /\ []PlacedAsRequested
    /\ [][\A b \in Blocks :
             Len(instructions'[b]) = Len(instructions[b]) + 1 =>
                \A pos \in 1..Len(instructions'[b]) :
                   LET inst == instructions'[b][pos]
                   IN  (/\ ~insts[inst].needs_name
                        /\ InsertedAt(instructions[b], instructions'[b], inst, pos))
                          => OnlyAdds(b, inst, pos)]_vars

\* An instruction that needs no name and was constructed with one stands
\* before another instruction in a list, and no name has been generated.
C9_Witness ==
    \E b \in Blocks :
        /\ Len(instructions[b]) = 2
        /\ ~insts[instructions[b][1]].needs_name
        /\ name[instructions[b][1]] = <<"t">>
        /\ variable_idx = 0

\* The tags of the closed enumeration of the kind of instruction i.
EnumOf(i) == IF insts[i].kind = "BinOp" THEN 0..3 ELSE 0..5

Tagged == {i \in Insts : insts[i].kind \in {"BinOp", "BitwiseBinary"}}

\* C10 as stated: the textual form of a BinOp or BitwiseBinary raises the
\* invalid-operator-kind fault exactly when its tag is outside the
\* enumeration of its kind.
C10_FaultIffTagOutside ==
    \A i \in Tagged :
        Instruction_str(i) = "InvalidTypeException"
            <=> insts[i].operator \notin EnumOf(i)

\* C10 as amended: constructing a BinOp or BitwiseBinary ends without fault
\* with any of the tags given, inside the enumeration or not; its textual form raises the invalid-operator-kind fault whenever the
\* tag is outside the enumeration of its kind, and with a tag inside it only
\* when one of its operands is an instruction whose own textual form raises
\* that fault; requesting the textual form changes no instruction, use list
\* or block.
C10_FaultFromTagOrOperand ==
    /\ [](\A i \in Tagged :
            /\ insts[i].operator \notin EnumOf(i) =>
                  Instruction_str(i) = "InvalidTypeException"
            /\ (/\ insts[i].operator \in EnumOf(i)
                /\ Instruction_str(i) = "InvalidTypeException") =>
                  \E k \in 1..Len(insts[i].operands) :
                      /\ IsInst(insts[i].operands[k])
                      /\ Instruction_str(insts[i].operands[k].id)
                            = "InvalidTypeException")
    /\ [][/\ (/\ Len(insts') = Len(insts) + 1
              /\ insts'[Len(insts')].kind \in {"BinOp", "BitwiseBinary"}) =>
                 /\ fault' = "none"
                 /\ insts'[Len(insts')].operator \in Tags
          /\ \A i \in Insts :
                Str(i) => UNCHANGED <<nblocks, insts, name, uses, instructions,
                                      predecessors, successors, variable_idx>>]_vars

\* The textual form of a BitwiseBinary with tag 99 was requested and raised
\* the fault.
C10_Witness ==
    /\ fault = "InvalidTypeException"
    /\ \E i \in Tagged : insts[i].kind = "BitwiseBinary" /\ insts[i].operator = 99

(***************************************************************************)
(* The frame of the CFG sets.                                              *)
(***************************************************************************)
\* The kinds whose constructor wires the CFG.
BranchClass == {"Branch", "IndirectBranch", "ConditionalBranch"}

\* C11: the predecessor and successor sets of a block change only in a step
\* that constructs a Branch, IndirectBranch or ConditionalBranch with a
\* parent; every other constructor, a branch constructed without parent,
\* append, insert, erase_from_parent, validate and render leave them alone.
C11_CfgFrame ==
    [][\A b \in Blocks :
          (predecessors'[b] # predecessors[b] \/ successors'[b] # successors[b])
             => /\ Len(insts') = Len(insts) + 1
                /\ insts'[Len(insts')].kind \in BranchClass
                /\ insts'[Len(insts')].parent # None]_vars

\* A block has got itself as successor from the one branch constructed with
\* a parent; a branch constructed without parent and a held instruction
\* exist beside it.
C11_Witness ==
    \E b \in Blocks :
        /\ successors[b] = {b}
        /\ predecessors[b] = {b}
        /\ \E i \in Insts : insts[i].kind \in BranchClass /\ insts[i].parent = None
        /\ Cardinality({i \in Insts : insts[i].kind \in BranchClass
                                        /\ insts[i].parent # None}) = 1
        /\ instructions[b] # <<>>

\* The blocks among the operands of a branch-class instruction: its targets.
Targets(operands) == {v.id : v \in {w \in Range(operands) : w.t = "bb"}}

\* A second call of add_successor or add_predecessor with the same arguments
\* changes nothing, and neither does a call for an entry that is there.
AddTwiceIsAddOnce ==
    \A b \in Blocks, x \in Blocks :
       /\ add_successor(add_successor(successors, b, x), b, x)
             = add_successor(successors, b, x)
       /\ add_predecessor(add_predecessor(predecessors, b, x), b, x)
             = add_predecessor(predecessors, b, x)
       /\ x \in successors[b] => add_successor(successors, b, x) = successors
       /\ x \in predecessors[b] => add_predecessor(predecessors, b, x) = predecessors

\* C12: add_predecessor and add_successor are idempotent: a call that
\* repeats an entry leaves the set as it was, and a branch-class constructor
\* with parent P leaves P.successors the old set with its targets added and
\* every target's predecessors the old set with P added, also when the edge
\* was there before and when both targets of a ConditionalBranch are the
\* same block.
C12_AddIdempotent ==
    /\ []AddTwiceIsAddOnce
    /\ [][\A b \in Blocks :
             (/\ Len(insts') = Len(insts) + 1
              /\ insts'[Len(insts')].kind \in BranchClass
              /\ insts'[Len(insts')].parent = b)
                => LET T == Targets(insts'[Len(insts')].operands)
                   IN  /\ successors'[b] = successors[b] \cup T
                       /\ \A c \in Blocks \ {b} : successors'[c] = successors[c]
                       /\ \A t \in Blocks :
                             predecessors'[t] =
                                IF t \in T THEN predecessors[t] \cup {b}
                                ELSE predecessors[t]]_vars

\* A ConditionalBranch whose two targets are the same block T was constructed
\* with parent P: T is the one successor of P and P the one predecessor of T.
C12_Witness ==
    \E i \in Insts :
        LET P == insts[i].parent
            T == insts[i].operands[2].id
        IN  /\ insts[i].kind = "ConditionalBranch"
            /\ P # None
            /\ insts[i].operands[3] = insts[i].operands[2]
            /\ T # P
            /\ successors[P] = {T}
            /\ predecessors[T] = {P}

(***************************************************************************)
(* The terminators of a block.                                             *)
(***************************************************************************)
\* The instructions of a terminator kind in the list of b (an IndirectBranch
\* is a Branch).
TerminatorsOf(b) == {i \in Range(instructions[b]) : is_terminator_instruction(i)}

\* C13: every block validate accepts holds exactly one instruction of a
\* terminator kind (Return, Branch, ConditionalBranch), and that instruction
\* is the last of the list.
C13_OneTerminatorWhenValid ==
    \A b \in Blocks :
        validate(b).fault = "none" =>
           /\ Cardinality(TerminatorsOf(b)) = 1
           /\ Last(instructions[b]) \in TerminatorsOf(b)

(***************************************************************************)
(* The order of the names.                                                 *)
(***************************************************************************)
\* C14: names are issued in the order of the append and insert calls: a
\* call that receives a name-requiring instruction asks the Name Generator
\* once and stores its next name in that instruction, whenever the
\* instruction was constructed and wherever it is put; no other step asks
\* the Name Generator, a constructor in particular.
C14_NamesInCallOrder ==
    [][/\ Len(insts') # Len(insts) => variable_idx' = variable_idx
       /\ variable_idx' # variable_idx =>
             \E b \in Blocks : Len(instructions'[b]) = Len(instructions[b]) + 1
       /\ \A b \in Blocks :
             Len(instructions'[b]) = Len(instructions[b]) + 1 =>
                \A pos \in 1..Len(instructions'[b]) :
                   LET inst == instructions'[b][pos]
                   IN  (/\ insts[inst].needs_name
                        /\ InsertedAt(instructions[b], instructions'[b], inst, pos))
                          => /\ variable_idx' = variable_idx + 1
                             /\ name'[inst] = generate(variable_idx)
                             /\ \A j \in Insts \ {inst} : name'[j] = name[j]]_vars

\* Of two name-requiring instructions in the lists, the one constructed
\* second holds the first name of the Name Generator and the one constructed
\* first the second name.
C14_Witness ==
    \E x \in Insts, y \in Insts :
        /\ y < x
        /\ insts[x].needs_name /\ insts[y].needs_name
        /\ name[x] = generate(0)
        /\ name[y] = generate(1)
        /\ \E b \in Blocks : {x, y} \subseteq Range(instructions[b])

(***************************************************************************)
(* Ownership.                                                              *)
(***************************************************************************)
\* C15: every instruction in the list of block b has b as its parent, and
\* no instruction is in the lists of two blocks.
C15_OwnershipConsistent ==
    /\ \A b \in Blocks : \A i \in Range(instructions[b]) : insts[i].parent = b
    /\ \A b \in Blocks, c \in Blocks :
          b # c => Range(instructions[b]) \cap Range(instructions[c]) = {}

(***************************************************************************)
(* The name property.                                                      *)
(***************************************************************************)
\* The stored identifier begins with the sigil.
HasSigil(stored) == stored # <<>> /\ stored[1] = "%"

\* C16: a read of the name gives the absent value when no name is stored,
\* the stored identifier when it begins with %, and the stored identifier
\* with one % before it when it does not; for a stored identifier that is
\* not empty, the value read, stored and read again, is the value read.
C16_NameNormalised ==
    \A i \in Insts :
       LET stored == name[i]
           read == NameOf(stored)
       IN  /\ stored = NoName => read = NoName
           /\ stored # NoName =>
                 read = IF HasSigil(stored) THEN stored ELSE <<"%">> \o stored
           /\ (stored # NoName /\ stored # <<>>) => NameOf(read) = read

(***************************************************************************)
(* What erase_from_parent removes.                                         *)
(***************************************************************************)
\* The list without any occurrence of x, the others in their order.
RECURSIVE Without(_, _)
Without(list, x) ==
    IF list = <<>> THEN <<>>
    ELSE IF Head(list) = x THEN Without(Tail(list), x)
    ELSE <<Head(list)>> \o Without(Tail(list), x)

\* C17: erase_from_parent on an instruction x with a parent block and an
\* empty use list ends without fault; afterwards x is nowhere in the list of
\* its parent, the other instructions of that list are there in their
\* order, and the list of no other block has changed, also when x was in
\* the list more than once.
C17_EraseRemovesEvery ==
    [][\A x \in Insts :
          (/\ insts[x].parent # None
           /\ uses[x] = <<>>
           /\ erase_from_parent(x))
             => /\ fault' = "none"
                /\ x \notin Range(instructions'[insts[x].parent])
                /\ instructions'[insts[x].parent]
                      = Without(instructions[insts[x].parent], x)
                /\ \A c \in Blocks \ {insts[x].parent} :
                      instructions'[c] = instructions[c]]_vars

(***************************************************************************)
(* Use lists and CFG sets only grow.                                       *)
(***************************************************************************)
\* The list `new` begins with the list `old`.
Extends(old, new) ==
    /\ Len(new) >= Len(old)
    /\ \A k \in 1..Len(old) : new[k] = old[k]

\* x is in no instruction list.
Detached(x) == \A b \in Blocks : x \notin Range(instructions[b])

\* C18: no step takes an entry out of the use list of an instruction or out
\* of the predecessors or successors of a block; an erased user stays in the
\* use lists of its operands and the edges of an erased branch stay in the
\* CFG sets.
C18_OnlyGrow ==
    [][/\ \A i \in Insts : Extends(uses[i], uses'[i])
       /\ \A b \in Blocks :
             /\ predecessors[b] \subseteq predecessors'[b]
             /\ successors[b] \subseteq successors'[b]]_vars

\* A user u of x was named by an append and is in no list any more: it has
\* been erased from its parent, and x.uses still holds it.
C18_Witness ==
    \E x \in Insts, u \in Insts :
        /\ IsUserOf(u, x)
        /\ insts[u].needs_name
        /\ name[u] = generate(0)
        /\ insts[u].parent # None
        /\ Detached(u)

(***************************************************************************)
(* Erasing a user before its definition.                                   *)
(***************************************************************************)
\* The number of places x has in the list.
Count(list, x) == Cardinality({k \in 1..Len(list) : list[k] = x})

\* u is the one user of x, and it has been erased from its parent.
OnlyUserErased(u, x) ==
    /\ Range(uses[x]) = {u}
    /\ IsUserOf(u, x)
    /\ insts[u].parent # None
    /\ Detached(u)

C20_LoadStoreNoUse ==
    /\ [](\A a \in Insts : insts[a].kind = "Alloca" => uses[a] = <<>>)
    /\ [][/\ (/\ Len(insts') = Len(insts) + 1
               /\ insts'[Len(insts')].kind \in {"Load", "Store"})
                 => /\ insts'[Len(insts')].operands = <<>>
                    /\ insts'[Len(insts')].alloca \in Insts
                    /\ \A i \in Insts : uses'[i] = uses[i]
          /\ \A a \in Insts :
                (insts[a].kind = "Alloca" /\ erase_from_parent(a))
                  => /\ fault' # "UsesRemain"
                     /\ insts[a].parent # None =>
                           /\ fault' = "none"
                           /\ Count(instructions[insts[a].parent], a) <= 1 =>
                                 a \notin Range(instructions'[insts[a].parent])]_vars

\* An Alloca was named by an append and erased from its parent; the Load
\* that refers to it, named after it, is in a list.
C20_Witness ==
    \E a \in Insts, l \in Insts :
        /\ insts[a].kind = "Alloca"
        /\ insts[l].kind = "Load"
        /\ insts[l].alloca = a
        /\ name[a] = generate(0)
        /\ name[l] = generate(1)
        /\ insts[a].parent # None
        /\ Detached(a)
        /\ ~Detached(l)
====
